---- MODULE Spec2Model ----
(***************************************************************************)
(* PrimeMultiset (src/prime_multiset.py): a multiset of primes stored as   *)
(* one integer.  The model keeps a few named instances, applies the        *)
(* class's operators and methods to them one call at a time, and records   *)
(* for the last call its arguments, the state before it and its outcome    *)
(* (returned object, returned boolean or raised exception).                *)
(***************************************************************************)
EXTENDS Integers, Sequences, FiniteSets

\* Largest value an instance may hold (Python integers are unbounded; the
\* growing operations are cut off here).
MaxValue == 12
\* Largest integer passed as an element to add/remove/discard/in.
MaxElem == 5
\* Longest sequence passed to the constructor.
MaxLen == 2

VARIABLES
    value,      \* value[i]: the attribute self.value of instance i
    op,         \* name of the last operator or method called ("__init__" at start)
    self,       \* the instance the last call was made on
    other,      \* its right operand, NoInst when it takes none
    elem,       \* its element argument, 0 when it takes none
    old,        \* value before the last call
    ret,        \* what the last call returned: "fresh" (a new instance), the
                \* name of an instance (that very object), "bool", "None",
                \* or "raise" when it raised
    retval,     \* value of the returned instance, 0 when none was returned
    retbool,    \* the returned boolean, FALSE when none was returned
    exc,        \* the exception raised: "none", "KeyError", "ZeroDivisionError"
    payload,    \* the argument of the raised KeyError, 0 otherwise
    bag         \* reference bag of instance "a" (BagSpec only): prime -> count

vars == <<value, op, self, other, elem, old, ret, retval, retbool, exc, payload, bag>>

\* The instances of Spec, and those of OrdSpec (three, for transitivity).
Inst == {"a", "b"}
Inst3 == {"a", "b", "c"}
NoInst == "-"

\* Elements handed to remove/discard/in: any integer from 0 up.
Elems == 0 .. MaxElem
\* Elements handed to add and to the constructor: positive integers.
PosElems == 1 .. MaxElem

IsPrime(p) == p >= 2 /\ \A d \in 2 .. (p - 1) : p % d # 0
\* The primes used as elements.
Primes == {p \in PosElems : IsPrime(p)}

-----------------------------------------------------------------------------
(* Integer helpers *)

\* math.gcd on non-negative integers (Euclid).
RECURSIVE gcd(_, _)
gcd(x, y) == IF y = 0 THEN x ELSE gcd(y, x % y)

\* __lcm without the division by the gcd.
__lcm_product(lhs, rhs) == lhs * rhs

\* PrimeMultiset.__lcm
__lcm(lhs, rhs) == (lhs * rhs) \div gcd(lhs, rhs)

\* functools.reduce(operator.mul, sequence, initial_value)
RECURSIVE reduce_mul(_, _)
reduce_mul(sequence, initial_value) ==
    IF sequence = << >> THEN initial_value
    ELSE reduce_mul(Tail(sequence), initial_value * Head(sequence))

\* divmod(x, y) for x >= 0, y > 0
divmod(x, y) == [quotient |-> x \div y, remainder |-> x % y]

-----------------------------------------------------------------------------
(* The operators and methods, on values: s is self.value, o is other.value *)

__init__(sequence, initial_value) == reduce_mul(sequence, initial_value)

\* __and__ taking the least common multiple for the greatest common divisor.
__and__lcm(s, o) == __init__(<< >>, __lcm(s, o))
__and__(s, o) == __init__(<< >>, gcd(s, o))
__iand__(s, o) == gcd(s, o)
__or__(s, o) == __init__(<< >>, __lcm(s, o))
__ior__(s, o) == __lcm(s, o)
\* __add__ computing the union for the sum.
__add__union(s, o) == __init__(<< >>, __lcm(s, o))
__add__(s, o) == __init__(<< >>, s * o)
__iadd__(s, o) == s * o
\* __sub__ dividing by other.value itself, not by the intersection.
__sub__naive(s, o) == __init__(<< >>, s \div o)
__sub__(s, o) == __init__(<< >>, s \div __and__(s, o))
__isub__(s, o) == s \div __and__(s, o)

__eq__(s, o) == s = o
__ne__(s, o) == s # o
\* __le__ with the operands of the remainder exchanged.
__le__swapped(s, o) == s % o = 0
__le__(s, o) == o % s = 0
__ge__(s, o) == s % o = 0
\* __lt__ without the test for inequality.
__lt__nonstrict(s, o) == __le__(s, o)
__lt__(s, o) == __le__(s, o) /\ __ne__(s, o)
__gt__(s, o) == __ge__(s, o) /\ __ne__(s, o)

add(s, element) == s * element

\* remove and discard: the new value and the exception raised.  divmod by 0
\* raises ZeroDivisionError before anything is assigned.
remove(s, element) ==
    IF element = 0
    THEN [value |-> s, exc |-> "ZeroDivisionError", payload |-> 0]
    ELSE LET qr == divmod(s, element) IN
         IF qr.remainder # 0
         THEN [value |-> s, exc |-> "KeyError", payload |-> element]
         ELSE [value |-> qr.quotient, exc |-> "none", payload |-> 0]

\* discard committing the quotient without looking at the remainder.
discard_unchecked(s, element) ==
    IF element = 0
    THEN [value |-> s, exc |-> "ZeroDivisionError", payload |-> 0]
    ELSE [value |-> divmod(s, element).quotient, exc |-> "none", payload |-> 0]

discard(s, element) ==
    IF element = 0
    THEN [value |-> s, exc |-> "ZeroDivisionError", payload |-> 0]
    ELSE LET qr == divmod(s, element) IN
         IF qr.remainder = 0
         THEN [value |-> qr.quotient, exc |-> "none", payload |-> 0]
         ELSE [value |-> s, exc |-> "none", payload |-> 0]

clear(s) == 1

is_empty(s) == s = 1

\* element in self: the result and the exception raised (value % 0 raises).
__contains__(s, element) ==
    IF element = 0
    THEN [result |-> FALSE, exc |-> "ZeroDivisionError"]
    ELSE [result |-> (s % element = 0), exc |-> "none"]

-----------------------------------------------------------------------------
(* Calls *)

Called(name, s, o, e) ==
    /\ op' = name
    /\ self' = s
    /\ other' = o
    /\ elem' = e
    /\ old' = value

Returns(what, v, b) ==
    /\ ret' = what
    /\ retval' = v
    /\ retbool' = b
    /\ exc' = "none"
    /\ payload' = 0

Raises(e, p) ==
    /\ ret' = "raise"
    /\ retval' = 0
    /\ retbool' = FALSE
    /\ exc' = e
    /\ payload' = p

\* A non-mutating operator: a new instance holding v is returned.
ReturnsNew(v) == value' = value /\ Returns("fresh", v, FALSE)

\* An in-place operator: self.value is assigned v and self is returned.
AssignsSelf(s, v) ==
    /\ v <= MaxValue
    /\ value' = [value EXCEPT ![s] = v]
    /\ Returns(s, v, FALSE)

ReturnsBool(b) == value' = value /\ Returns("bool", 0, b)

\* __and__ assigning to self and returning it, as __iand__ does.
Call__and__inplace(s, o) ==
    Called("__and__", s, o, 0) /\ AssignsSelf(s, __and__(value[s], value[o]))
Call__and__(s, o) ==
    Called("__and__", s, o, 0) /\ ReturnsNew(__and__(value[s], value[o]))
Call__iand__(s, o) ==
    Called("__iand__", s, o, 0) /\ AssignsSelf(s, __iand__(value[s], value[o]))
Call__or__(s, o) ==
    Called("__or__", s, o, 0) /\ ReturnsNew(__or__(value[s], value[o]))
Call__ior__(s, o) ==
    Called("__ior__", s, o, 0) /\ AssignsSelf(s, __ior__(value[s], value[o]))
Call__add__(s, o) ==
    Called("__add__", s, o, 0) /\ ReturnsNew(__add__(value[s], value[o]))
Call__iadd__(s, o) ==
    Called("__iadd__", s, o, 0) /\ AssignsSelf(s, __iadd__(value[s], value[o]))
Call__sub__(s, o) ==
    Called("__sub__", s, o, 0) /\ ReturnsNew(__sub__(value[s], value[o]))
Call__isub__(s, o) ==
    Called("__isub__", s, o, 0) /\ AssignsSelf(s, __isub__(value[s], value[o]))

Call__eq__(s, o) ==
    Called("__eq__", s, o, 0) /\ ReturnsBool(__eq__(value[s], value[o]))
Call__ne__(s, o) ==
    Called("__ne__", s, o, 0) /\ ReturnsBool(__ne__(value[s], value[o]))
Call__lt__(s, o) ==
    Called("__lt__", s, o, 0) /\ ReturnsBool(__lt__(value[s], value[o]))
Call__le__(s, o) ==
    Called("__le__", s, o, 0) /\ ReturnsBool(__le__(value[s], value[o]))
Call__gt__(s, o) ==
    Called("__gt__", s, o, 0) /\ ReturnsBool(__gt__(value[s], value[o]))
Call__ge__(s, o) ==
    Called("__ge__", s, o, 0) /\ ReturnsBool(__ge__(value[s], value[o]))

Call_add(s, e) ==
    /\ add(value[s], e) <= MaxValue
    /\ Called("add", s, NoInst, e)
    /\ value' = [value EXCEPT ![s] = add(value[s], e)]
    /\ Returns("None", 0, FALSE)

Call_remove(s, e) ==
    LET r == remove(value[s], e) IN
    /\ Called("remove", s, NoInst, e)
    /\ value' = [value EXCEPT ![s] = r.value]
    /\ IF r.exc = "none" THEN Returns("None", 0, FALSE) ELSE Raises(r.exc, r.payload)

Call_discard(s, e) ==
    LET r == discard(value[s], e) IN
    /\ Called("discard", s, NoInst, e)
    /\ value' = [value EXCEPT ![s] = r.value]
    /\ IF r.exc = "none" THEN Returns("None", 0, FALSE) ELSE Raises(r.exc, r.payload)

Call_clear(s) ==
    /\ Called("clear", s, NoInst, 0)
    /\ value' = [value EXCEPT ![s] = clear(value[s])]
    /\ Returns("None", 0, FALSE)

Call_is_empty(s) ==
    Called("is_empty", s, NoInst, 0) /\ ReturnsBool(is_empty(value[s]))

Call__contains__(s, e) ==
    LET r == __contains__(value[s], e) IN
    /\ Called("__contains__", s, NoInst, e)
    /\ value' = value
    /\ IF r.exc = "none" THEN Returns("bool", 0, r.result) ELSE Raises(r.exc, 0)

-----------------------------------------------------------------------------
(* Spec: two instances, every operator and method *)

\* Sequences of at most MaxLen elements of S.
SeqsUpTo(S) == UNION {[1 .. n -> S] : n \in 0 .. MaxLen}

\* The values PrimeMultiset(sequence, initial_value) can construct, cut off
\* at MaxValue.
Constructed ==
    {v \in {__init__(sq, iv) : sq \in SeqsUpTo(Primes), iv \in 1 .. MaxValue} :
        v <= MaxValue}

NoBag == [p \in Primes |-> 0]

Init ==
    /\ value \in [Inst -> Constructed]
    /\ op = "__init__"
    /\ self = NoInst
    /\ other = NoInst
    /\ elem = 0
    /\ old = value
    /\ ret = "None"
    /\ retval = 0
    /\ retbool = FALSE
    /\ exc = "none"
    /\ payload = 0
    /\ bag = NoBag

Next ==
    \/ \E s \in Inst, o \in Inst : Call__and__(s, o) /\ UNCHANGED bag
    \/ \E s \in Inst, o \in Inst : Call__iand__(s, o) /\ UNCHANGED bag
    \/ \E s \in Inst, o \in Inst : Call__or__(s, o) /\ UNCHANGED bag
    \/ \E s \in Inst, o \in Inst : Call__ior__(s, o) /\ UNCHANGED bag
    \/ \E s \in Inst, o \in Inst : Call__add__(s, o) /\ UNCHANGED bag
    \/ \E s \in Inst, o \in Inst : Call__iadd__(s, o) /\ UNCHANGED bag
    \/ \E s \in Inst, o \in Inst : Call__sub__(s, o) /\ UNCHANGED bag
    \/ \E s \in Inst, o \in Inst : Call__isub__(s, o) /\ UNCHANGED bag
    \/ \E s \in Inst, o \in Inst : Call__eq__(s, o) /\ UNCHANGED bag
    \/ \E s \in Inst, o \in Inst : Call__ne__(s, o) /\ UNCHANGED bag
    \/ \E s \in Inst, o \in Inst : Call__lt__(s, o) /\ UNCHANGED bag
    \/ \E s \in Inst, o \in Inst : Call__le__(s, o) /\ UNCHANGED bag
    \/ \E s \in Inst, o \in Inst : Call__gt__(s, o) /\ UNCHANGED bag
    \/ \E s \in Inst, o \in Inst : Call__ge__(s, o) /\ UNCHANGED bag
    \/ \E s \in Inst, e \in PosElems : Call_add(s, e) /\ UNCHANGED bag
    \/ \E s \in Inst, e \in Elems : Call_remove(s, e) /\ UNCHANGED bag
    \/ \E s \in Inst, e \in Elems : Call_discard(s, e) /\ UNCHANGED bag
    \/ \E s \in Inst : Call_clear(s) /\ UNCHANGED bag
    \/ \E s \in Inst : Call_is_empty(s) /\ UNCHANGED bag
    \/ \E s \in Inst, e \in Elems : Call__contains__(s, e) /\ UNCHANGED bag

Spec == Init /\ [][Next]_vars

-----------------------------------------------------------------------------
(* OrdSpec: three instances, the comparison operators *)

OrdInit ==
    /\ value \in [Inst3 -> Constructed]
    /\ op = "__init__"
    /\ self = NoInst
    /\ other = NoInst
    /\ elem = 0
    /\ old = value
    /\ ret = "None"
    /\ retval = 0
    /\ retbool = FALSE
    /\ exc = "none"
    /\ payload = 0
    /\ bag = NoBag

OrdNext ==
    \/ \E s \in Inst3, o \in Inst3 : Call__eq__(s, o) /\ UNCHANGED bag
    \/ \E s \in Inst3, o \in Inst3 : Call__ne__(s, o) /\ UNCHANGED bag
    \/ \E s \in Inst3, o \in Inst3 : Call__lt__(s, o) /\ UNCHANGED bag
    \/ \E s \in Inst3, o \in Inst3 : Call__le__(s, o) /\ UNCHANGED bag
    \/ \E s \in Inst3, o \in Inst3 : Call__gt__(s, o) /\ UNCHANGED bag
    \/ \E s \in Inst3, o \in Inst3 : Call__ge__(s, o) /\ UNCHANGED bag

OrdSpec == OrdInit /\ [][OrdNext]_vars

-----------------------------------------------------------------------------
(* BagSpec: one instance built from a list of primes and changed by add,   *)
(* remove, discard and clear with primes, beside a reference bag           *)

\* Number of occurrences of p in the sequence sq.
RECURSIVE Count(_, _)
Count(p, sq) ==
    IF sq = << >> THEN 0
    ELSE (IF Head(sq) = p THEN 1 ELSE 0) + Count(p, Tail(sq))

BagInit ==
    /\ \E sq \in SeqsUpTo(Primes) :
          /\ __init__(sq, 1) <= MaxValue
          /\ value = [i \in {"a"} |-> __init__(sq, 1)]
          /\ bag = [p \in Primes |-> Count(p, sq)]
    /\ op = "__init__"
    /\ self = NoInst
    /\ other = NoInst
    /\ elem = 0
    /\ old = value
    /\ ret = "None"
    /\ retval = 0
    /\ retbool = FALSE
    /\ exc = "none"
    /\ payload = 0

\* The reference bag's own add, remove (KeyError when absent), discard, clear.
BagAdd(p) == bag' = [bag EXCEPT ![p] = @ + 1]
BagTake(p) == bag' = [bag EXCEPT ![p] = IF @ > 0 THEN @ - 1 ELSE 0]

BagNext ==
    \/ \E p \in Primes : Call_add("a", p) /\ BagAdd(p)
    \/ \E p \in Primes : Call_remove("a", p) /\ BagTake(p)
    \/ \E p \in Primes : Call_discard("a", p) /\ BagTake(p)
    \/ Call_clear("a") /\ bag' = NoBag
    \/ Call_is_empty("a") /\ UNCHANGED bag
    \/ \E p \in Primes : Call__contains__("a", p) /\ UNCHANGED bag

BagSpec == BagInit /\ [][BagNext]_vars

-----------------------------------------------------------------------------
TypeOK ==
    /\ \A i \in DOMAIN value : value[i] \in 1 .. MaxValue
    /\ exc \in {"none", "KeyError", "ZeroDivisionError"}

-----------------------------------------------------------------------------
(* Reference notions used by the properties *)

\* e evenly divides v: v is an integer multiple of e.
Divides(e, v) == \E k \in 0 .. v : k * e = v

\* Multiplicity of the prime p in the multiset encoded by n >= 1: the
\* exponent of p in n.
RECURSIVE Mult(_, _)
Mult(p, n) == IF n % p = 0 THEN 1 + Mult(p, n \div p) ELSE 0

\* Every prime that can divide a value of an instance.
ValuePrimes == {p \in 2 .. MaxValue : IsPrime(p)}

Min(x, y) == IF x <= y THEN x ELSE y
Max(x, y) == IF x >= y THEN x ELSE y

\* The greatest common divisor by its definition.
GreatestCommonDivisor(x, y) ==
    CHOOSE d \in 1 .. x :
        /\ x % d = 0 /\ y % d = 0
        /\ \A c \in 1 .. x : (x % c = 0 /\ y % c = 0) => c <= d

\* Operands of the last call, as they were when it was made.
SelfBefore == old[self]
OtherBefore == old[other]

-----------------------------------------------------------------------------
(* C1, C2: remove and discard *)

\* C1 (as stated): remove(e) raises KeyError(e) exactly when e does not
\* evenly divide the value, and then leaves the value unchanged; when e
\* divides the value it raises nothing and the value becomes the exact
\* quotient.
C1_RemoveKeyErrorIffNotDivides ==
    op = "remove" =>
        /\ (exc = "KeyError" /\ payload = elem) <=> ~Divides(elem, SelfBefore)
        /\ ~Divides(elem, SelfBefore) => value = old
        /\ Divides(elem, SelfBefore) =>
              /\ exc = "none"
              /\ value[self] * elem = SelfBefore
              /\ \A i \in DOMAIN value \ {self} : value[i] = old[i]

\* C1 for the elements other than 0 (holds).
C1_RemoveNonzero ==
    (op = "remove" /\ elem # 0) =>
        /\ (exc = "KeyError" /\ payload = elem) <=> ~Divides(elem, SelfBefore)
        /\ ~Divides(elem, SelfBefore) => value = old
        /\ Divides(elem, SelfBefore) =>
              /\ exc = "none"
              /\ value[self] * elem = SelfBefore
              /\ \A i \in DOMAIN value \ {self} : value[i] = old[i]

\* remove never changes the value when it raises, whatever it raises (holds).
C1_RemoveFailureKeepsValue ==
    (op = "remove" /\ exc # "none") => value = old

\* C2 (as stated): discard(e) raises nothing for any integer e; it commits
\* the quotient when the remainder is zero and leaves the value unchanged
\* otherwise.
C2_DiscardNeverRaises ==
    op = "discard" =>
        /\ exc = "none"
        /\ Divides(elem, SelfBefore) => value[self] * elem = SelfBefore
        /\ ~Divides(elem, SelfBefore) => value = old

\* C2 for the elements other than 0 (holds).
C2_DiscardNonzero ==
    (op = "discard" /\ elem # 0) =>
        /\ exc = "none"
        /\ Divides(elem, SelfBefore) => value[self] * elem = SelfBefore
        /\ ~Divides(elem, SelfBefore) => value = old

-----------------------------------------------------------------------------
(* C3, C4, C7, C8: the set algebra *)

\* C3: the difference a - b (and a -= b) has value a.value / gcd(a.value,
\* b.value), the division is exact, and every prime p has multiplicity
\* max(0, mult_a(p) - mult_b(p)) in the result.
C3_Difference ==
    op \in {"__sub__", "__isub__"} =>
        LET g == GreatestCommonDivisor(SelfBefore, OtherBefore) IN
        /\ SelfBefore % g = 0
        /\ retval * g = SelfBefore
        /\ op = "__isub__" => value[self] = retval
        /\ \A p \in ValuePrimes :
              Mult(p, retval) = Max(0, Mult(p, SelfBefore) - Mult(p, OtherBefore))

\* A difference was taken where b has more of a prime of a than a has, b
\* has a prime a lacks, and something of a is left.
C3_Witness ==
    /\ op = "__sub__"
    /\ retval > 1
    /\ \E p \in ValuePrimes :
          Mult(p, SelfBefore) > 0 /\ Mult(p, OtherBefore) > Mult(p, SelfBefore)
    /\ \E q \in ValuePrimes : Mult(q, SelfBefore) = 0 /\ Mult(q, OtherBefore) > 0

\* C4: every prime p has multiplicity min(mult_a(p), mult_b(p)) in a & b and
\* max(mult_a(p), mult_b(p)) in a | b; the union's value is
\* a.value * b.value / gcd(a.value, b.value), an exact division.
C4_IntersectionUnion ==
    /\ op \in {"__and__", "__iand__"} =>
          /\ op = "__iand__" => value[self] = retval
          /\ \A p \in ValuePrimes :
                Mult(p, retval) = Min(Mult(p, SelfBefore), Mult(p, OtherBefore))
    /\ op \in {"__or__", "__ior__"} =>
          LET g == GreatestCommonDivisor(SelfBefore, OtherBefore) IN
          /\ (SelfBefore * OtherBefore) % g = 0
          /\ retval * g = SelfBefore * OtherBefore
          /\ op = "__ior__" => value[self] = retval
          /\ \A p \in ValuePrimes :
                Mult(p, retval) = Max(Mult(p, SelfBefore), Mult(p, OtherBefore))

\* A union of two multisets that share a prime with different
\* multiplicities and each hold something the other lacks.
C4_Witness ==
    /\ op = "__or__"
    /\ \E p \in ValuePrimes :
          Mult(p, SelfBefore) > Mult(p, OtherBefore) /\ Mult(p, OtherBefore) > 0
    /\ \E q \in ValuePrimes : Mult(q, SelfBefore) < Mult(q, OtherBefore)

\* C7: (P(a) + P(b)) - P(b) == P(a): subtracting b from the instance the
\* sum returned (or from a after a += b) gives a multiset equal to a.
C7_SumDifferenceInverse ==
    op \in {"__add__", "__iadd__"} =>
        /\ op = "__iadd__" => value[self] = retval
        /\ __eq__(__sub__(retval, OtherBefore), SelfBefore)

\* A sum of two non-empty multisets that share a prime.
C7_Witness ==
    /\ op = "__add__"
    /\ self # other
    /\ \E p \in ValuePrimes : Mult(p, SelfBefore) > 0 /\ Mult(p, OtherBefore) > 0
    /\ SelfBefore # OtherBefore

\* C8: P(a) <= P(a) | P(b) and P(a) & P(b) <= P(a): each operand is included
\* in the union and the intersection is included in each operand.
C8_InclusionConsistency ==
    /\ op = "__or__" => __le__(SelfBefore, retval) /\ __le__(OtherBefore, retval)
    /\ op = "__and__" => __le__(retval, SelfBefore) /\ __le__(retval, OtherBefore)

\* An intersection of two multisets neither of which includes the other.
C8_Witness ==
    /\ op = "__and__"
    /\ retval > 1
    /\ ~__le__(SelfBefore, OtherBefore)
    /\ ~__le__(OtherBefore, SelfBefore)

-----------------------------------------------------------------------------
(* C5, C6: inclusion *)

\* a is a submultiset of b: no prime has more occurrences in a than in b.
Included(x, y) == \A p \in ValuePrimes : Mult(p, x) <= Mult(p, y)

\* C5: a <= b holds iff every prime's multiplicity in a is at most its
\* multiplicity in b; <= is reflexive, antisymmetric and transitive; and
\* a >= b holds iff b <= a.
C5_SubmultisetOrder ==
    /\ op = "__le__" => retbool = Included(value[self], value[other])
    /\ op = "__ge__" => retbool = Included(value[other], value[self])
    /\ \A x \in DOMAIN value, y \in DOMAIN value :
          /\ __le__(value[x], value[x])
          /\ __ge__(value[x], value[y]) <=> __le__(value[y], value[x])
          /\ (__le__(value[x], value[y]) /\ __le__(value[y], value[x]))
                => __eq__(value[x], value[y])
          /\ \A z \in DOMAIN value :
                (__le__(value[x], value[y]) /\ __le__(value[y], value[z]))
                    => __le__(value[x], value[z])

\* a <= b was evaluated to true on a chain a < b < c of three multisets,
\* beside a fourth comparison that is false (c <= a).
C5_Witness ==
    /\ op = "__le__" /\ self = "a" /\ other = "b" /\ retbool
    /\ value["a"] # value["b"] /\ value["b"] # value["c"]
    /\ value["a"] > 1
    /\ __le__(value["b"], value["c"])
    /\ ~__le__(value["c"], value["a"])

\* C6: a < b iff (a <= b and a != b), a > b iff (a >= b and a != b),
\* a < b iff b > a, a < a is false, and a < b and b < a never both hold.
C6_StrictInclusion ==
    /\ op = "__lt__" =>
          /\ retbool = (__le__(value[self], value[other]) /\ __ne__(value[self], value[other]))
          /\ retbool = (Included(value[self], value[other]) /\ value[self] # value[other])
    /\ op = "__gt__" =>
          /\ retbool = (__ge__(value[self], value[other]) /\ __ne__(value[self], value[other]))
          /\ retbool = (Included(value[other], value[self]) /\ value[self] # value[other])
    /\ \A x \in DOMAIN value, y \in DOMAIN value :
          /\ __lt__(value[x], value[y]) <=> __gt__(value[y], value[x])
          /\ ~__lt__(value[x], value[x])
          /\ ~(__lt__(value[x], value[y]) /\ __lt__(value[y], value[x]))

\* a < b was evaluated to true on two distinct non-empty instances.
C6_Witness ==
    /\ op = "__lt__" /\ retbool
    /\ self # other
    /\ value[self] > 1

-----------------------------------------------------------------------------
(* C9: what the set-algebra operators change and return *)

NonMutating == {"__and__", "__or__", "__add__", "__sub__"}
InPlace == {"__iand__", "__ior__", "__iadd__", "__isub__"}

\* The value the non-mutating counterpart of an in-place operator returns.
Counterpart(name, s, o) ==
    CASE name = "__iand__" -> __and__(s, o)
      [] name = "__ior__" -> __or__(s, o)
      [] name = "__iadd__" -> __add__(s, o)
      [] name = "__isub__" -> __sub__(s, o)

\* C9: &, |, + and - return a new instance and leave both operands as they
\* were; &=, |=, += and -= change self.value only, return self, and leave
\* self with the value the non-mutating operator would have returned.
C9_FrameOfOperators ==
    /\ op \in NonMutating => ret = "fresh" /\ value = old
    /\ op \in InPlace =>
          /\ ret = self
          /\ \A i \in DOMAIN value \ {self} : value[i] = old[i]
          /\ value[self] = Counterpart(op, SelfBefore, OtherBefore)

\* An in-place union on two distinct instances changed self.
C9_Witness ==
    /\ op = "__ior__"
    /\ self # other
    /\ value[self] # old[self]
    /\ value[other] > 1

-----------------------------------------------------------------------------
(* C10: the instance against a reference bag of primes *)

RECURSIVE Power(_, _)
Power(p, n) == IF n = 0 THEN 1 ELSE p * Power(p, n - 1)

\* The product of the elements of the bag b restricted to the primes in S.
RECURSIVE BagProduct(_, _)
BagProduct(b, S) ==
    IF S = {} THEN 1
    ELSE LET p == CHOOSE q \in S : TRUE IN Power(p, b[p]) * BagProduct(b, S \ {p})

\* C10: after any sequence of add, remove, discard and clear with primes,
\* value is >= 1 and is the product of the bag's elements (the exponent of
\* p is the count of p), is_empty() is true iff the bag is empty, p in m is
\* true iff the bag holds a p, and remove(p) raises iff the bag holds no p.
C10_RefinesBag ==
    LET v == value["a"] IN
    /\ v >= 1
    /\ v = BagProduct(bag, Primes)
    /\ \A p \in Primes : Mult(p, v) = bag[p]
    /\ is_empty(v) <=> (\A p \in Primes : bag[p] = 0)
    /\ \A p \in Primes :
          /\ __contains__(v, p).exc = "none"
          /\ __contains__(v, p).result <=> bag[p] >= 1
          /\ remove(v, p).exc # "none" <=> bag[p] = 0
    /\ op = "is_empty" => retbool = (\A p \in Primes : bag[p] = 0)
    /\ op = "__contains__" => (exc = "none" /\ retbool = (bag[elem] >= 1))
    /\ op = "remove" => (exc # "none" <=> value = old)

\* remove(p) raised KeyError on a bag that holds other primes, one of them
\* twice, and no p.
C10_Witness ==
    /\ op = "remove" /\ exc = "KeyError" /\ payload = elem
    /\ bag[elem] = 0
    /\ \E q \in Primes : bag[q] >= 2

====
